---- MODULE Spec2Model ----
(***************************************************************************)
(* A model of sql-lineage-tracker: the lineage graph (core/models.py),     *)
(* the statement extractor (core/extractor.py), the multi-source resolver  *)
(* and the execution-order engine (core/resolver.py).                      *)
(*                                                                         *)
(* Strings are sequences of one-character strings, so that str.lower(),    *)
(* ".".join, rsplit(".", 1) and split(".") are computed character by       *)
(* character as Python computes them.  None and "" (both falsy) are the    *)
(* empty sequence.  A dict is the sequence of its values in insertion      *)
(* order; the key of a value is its id field.                              *)
(***************************************************************************)
EXTENDS Integers, Sequences, FiniteSets, TLC

VARIABLES graph, file_graph, order, pc, batch, idx, stmt_idx, include_columns,
          warnings, returned, last, nops

vars == <<graph, file_graph, order, pc, batch, idx, stmt_idx, include_columns,
          warnings, returned, last, nops>>

(***************************************************************************)
(* Bounds of the model.                                                    *)
(***************************************************************************)
MaxEdges == 3
MaxBatch == 3
MaxOps == 4
MaxStmts == 2

(***************************************************************************)
(* Strings.                                                                *)
(***************************************************************************)
None == <<>>
Dot == "."

UpperChars == <<"A", "B", "C", "E", "F", "I", "L", "S", "T", "V", "W", "X", "Y">>
LowerChars == <<"a", "b", "c", "e", "f", "i", "l", "s", "t", "v", "w", "x", "y">>

\* str.lower() on one character.
LowerCh(ch) ==
    IF \E i \in DOMAIN UpperChars : UpperChars[i] = ch
    THEN LowerChars[CHOOSE i \in DOMAIN UpperChars : UpperChars[i] = ch]
    ELSE ch

\* str.upper() on one character.
UpperCh(ch) ==
    IF \E i \in DOMAIN LowerChars : LowerChars[i] = ch
    THEN UpperChars[CHOOSE i \in DOMAIN LowerChars : LowerChars[i] = ch]
    ELSE ch

\* str.lower()
Lower(s) == [i \in DOMAIN s |-> LowerCh(s[i])]

\* str.upper()
Upper(s) == [i \in DOMAIN s |-> UpperCh(s[i])]

\* ".".join(parts)
RECURSIVE JoinDot(_)
JoinDot(parts) ==
    IF parts = <<>> THEN <<>>
    ELSE IF Len(parts) = 1 THEN parts[1]
    ELSE parts[1] \o <<Dot>> \o JoinDot(Tail(parts))

\* The index of the last "." of s, 0 when there is none.
LastDot(s) ==
    IF \E i \in DOMAIN s : s[i] = Dot
    THEN CHOOSE i \in DOMAIN s : s[i] = Dot /\ \A j \in DOMAIN s : s[j] = Dot => j <= i
    ELSE 0

\* s.rsplit(".", 1): one part when s holds no ".", else two.
RSplit1(s) ==
    IF LastDot(s) = 0 THEN <<s>>
    ELSE <<SubSeq(s, 1, LastDot(s) - 1), SubSeq(s, LastDot(s) + 1, Len(s))>>

\* s.split(".")[-1]
SplitLast(s) == SubSeq(s, LastDot(s) + 1, Len(s))

(***************************************************************************)
(* core/models.py                                                          *)
(***************************************************************************)
TABLE_TO_TABLE == "table_to_table"
COLUMN_TO_COLUMN == "column_to_column"

\* Table(name=..., schema_name=..., database=...), the other fields at their defaults.
Table(name, schema_name, database) ==
    [name |-> name, schema_name |-> schema_name, database |-> database,
     source_file |-> None, is_cte |-> FALSE]

\* Table.qualified_name
TableQualifiedName(table) ==
    JoinDot((IF table.database # <<>> THEN <<table.database>> ELSE <<>>)
            \o (IF table.schema_name # <<>> THEN <<table.schema_name>> ELSE <<>>)
            \o <<table.name>>)

NoTable == [none |-> TRUE]

\* Column.qualified_name; column.table is a Table or NoTable.
ColumnQualifiedName(column) ==
    IF column.table # NoTable
    THEN TableQualifiedName(column.table) \o <<Dot>> \o column.name
    ELSE column.name

LineageEdge(source, target, edge_type, expression, source_file) ==
    [source |-> source, target |-> target, edge_type |-> edge_type,
     expression |-> expression, source_file |-> source_file]

\* __eq__ comparing the endpoints as written, without lower().
EdgeEqCaseSensitive(e1, e2) ==
    /\ e1.source = e2.source
    /\ e1.target = e2.target
    /\ e1.edge_type = e2.edge_type

\* LineageEdge.__eq__
EdgeEq(e1, e2) ==
    /\ Lower(e1.source) = Lower(e2.source)
    /\ Lower(e1.target) = Lower(e2.target)
    /\ e1.edge_type = e2.edge_type

\* LineageEdge.__hash__'s key
EdgeKey(e) == <<Lower(e.source), Lower(e.target), e.edge_type>>

\* LineageGraph()
EmptyGraph == [tables |-> <<>>, columns |-> <<>>, edges |-> <<>>]

\* key in dict
HasKey(nodes, key) == \E i \in DOMAIN nodes : nodes[i].id = key

\* dict[key]
NodeAt(nodes, key) == nodes[CHOOSE i \in DOMAIN nodes : nodes[i].id = key]

Keys(nodes) == {nodes[i].id : i \in DOMAIN nodes}

\* add_table keyed by the qualified name as written, without lower().
add_table_case_sensitive(g, table, node_type) ==
    LET node_id == TableQualifiedName(table) IN
    IF ~HasKey(g.tables, node_id)
    THEN [g EXCEPT !.tables = Append(@,
            [id |-> node_id, name |-> table.name, schema_name |-> table.schema_name,
             database |-> table.database, source_file |-> table.source_file,
             is_cte |-> table.is_cte, node_type |-> node_type])]
    ELSE g

\* LineageGraph.add_table
add_table(g, table, node_type) ==
    LET node_id == Lower(TableQualifiedName(table)) IN
    IF ~HasKey(g.tables, node_id)
    THEN [g EXCEPT !.tables = Append(@,
            [id |-> node_id, name |-> table.name, schema_name |-> table.schema_name,
             database |-> table.database, source_file |-> table.source_file,
             is_cte |-> table.is_cte, node_type |-> node_type])]
    ELSE g

\* LineageGraph.add_column
add_column(g, column) ==
    LET node_id == Lower(ColumnQualifiedName(column))
        table_id == IF column.table # NoTable
                    THEN Lower(TableQualifiedName(column.table)) ELSE <<>>
    IN IF ~HasKey(g.columns, node_id)
       THEN [g EXCEPT !.columns = Append(@,
               [id |-> node_id, name |-> column.name, table_id |-> table_id])]
       ELSE g

\* edge in self.edges
EdgeIn(e, edges) == \E i \in DOMAIN edges : EdgeEq(edges[i], e)

\* add_edge without the membership test.
add_edge_always(g, edge) == [g EXCEPT !.edges = Append(@, edge)]

\* add_edge storing the new edge in the place of the equal edge the list holds.
add_edge_replace(g, edge) ==
    IF ~EdgeIn(edge, g.edges) THEN [g EXCEPT !.edges = Append(@, edge)]
    ELSE [g EXCEPT !.edges = [i \in DOMAIN @ |-> IF EdgeEq(@[i], edge) THEN edge ELSE @[i]]]

\* LineageGraph.add_edge
add_edge(g, edge) ==
    IF ~EdgeIn(edge, g.edges) THEN [g EXCEPT !.edges = Append(@, edge)] ELSE g

\* The node loop of merge storing every node of other, an existing key overwritten.
RECURSIVE MergeNodesLastWins(_, _)
MergeNodesLastWins(mine, theirs) ==
    IF theirs = <<>> THEN mine
    ELSE MergeNodesLastWins(
           IF ~HasKey(mine, Head(theirs).id) THEN Append(mine, Head(theirs))
           ELSE [i \in DOMAIN mine |->
                   IF mine[i].id = Head(theirs).id THEN Head(theirs) ELSE mine[i]],
           Tail(theirs))

\* The node loop of merge leaving the loop at the first key self already holds.
RECURSIVE MergeNodesStopAtKnown(_, _)
MergeNodesStopAtKnown(mine, theirs) ==
    IF theirs = <<>> THEN mine
    ELSE IF HasKey(mine, Head(theirs).id) THEN mine
    ELSE MergeNodesStopAtKnown(Append(mine, Head(theirs)), Tail(theirs))

\* The two node loops of merge: a node of other whose key self lacks is stored as it is.
RECURSIVE MergeNodes(_, _)
MergeNodes(mine, theirs) ==
    IF theirs = <<>> THEN mine
    ELSE MergeNodes(IF ~HasKey(mine, Head(theirs).id) THEN Append(mine, Head(theirs))
                    ELSE mine,
                    Tail(theirs))

\* The edge loop of merge walking other.edges from the last edge to the first.
RECURSIVE MergeEdgesReversed(_, _)
MergeEdgesReversed(g, theirs) ==
    IF theirs = <<>> THEN g
    ELSE MergeEdgesReversed(add_edge(g, theirs[Len(theirs)]), SubSeq(theirs, 1, Len(theirs) - 1))

\* The edge loop of merge: self.add_edge(edge) for every edge of other, in order.
RECURSIVE MergeEdges(_, _)
MergeEdges(g, theirs) ==
    IF theirs = <<>> THEN g ELSE MergeEdges(add_edge(g, Head(theirs)), Tail(theirs))

\* merge without its loop over other.edges: only the nodes are taken over.
merge_nodes_only(g, other) ==
    [g EXCEPT !.tables = MergeNodes(@, other.tables),
              !.columns = MergeNodes(@, other.columns)]

\* LineageGraph.merge
merge(g, other) ==
    MergeEdges([g EXCEPT !.tables = MergeNodes(@, other.tables),
                         !.columns = MergeNodes(@, other.columns)],
               other.edges)

\* get_upstream comparing the target with node_id as written, without lower().
RECURSIVE get_upstream_of_case_sensitive(_, _)
get_upstream_of_case_sensitive(edges, node_id) ==
    IF edges = <<>> THEN <<>>
    ELSE (IF Head(edges).target = node_id THEN <<Head(edges).source>> ELSE <<>>)
         \o get_upstream_of_case_sensitive(Tail(edges), node_id)

\* LineageGraph.get_upstream
RECURSIVE get_upstream_of(_, _)
get_upstream_of(edges, node_id) ==
    IF edges = <<>> THEN <<>>
    ELSE (IF Lower(Head(edges).target) = Lower(node_id) THEN <<Head(edges).source>> ELSE <<>>)
         \o get_upstream_of(Tail(edges), node_id)

get_upstream(g, node_id) == get_upstream_of(g.edges, node_id)

\* LineageGraph.get_downstream
RECURSIVE get_downstream_of(_, _)
get_downstream_of(edges, node_id) ==
    IF edges = <<>> THEN <<>>
    ELSE (IF Lower(Head(edges).source) = Lower(node_id) THEN <<Head(edges).target>> ELSE <<>>)
         \o get_downstream_of(Tail(edges), node_id)

get_downstream(g, node_id) == get_downstream_of(g.edges, node_id)

\* The entry to_d3_json makes of a table node.
D3TableNode(table_node) ==
    [id |-> table_node.id, name |-> table_node.name, type |-> table_node.node_type,
     schema |-> table_node.schema_name, database |-> table_node.database,
     source_file |-> table_node.source_file, is_cte |-> table_node.is_cte,
     level |-> "table"]

\* The entry to_d3_json makes of a column node.
D3ColumnNode(col_node) ==
    [id |-> col_node.id, name |-> col_node.name, type |-> "column",
     table_id |-> col_node.table_id, table |-> col_node.table_id, level |-> "column"]

\* The entry to_d3_json makes of an edge: source and target are the edge's own
\* strings; a column_to_column edge gets the parts of rsplit(".", 1) when there
\* are two.
D3Link(edge) ==
    LET link_data == [source |-> edge.source, target |-> edge.target,
                      type |-> edge.edge_type, expression |-> edge.expression,
                      source_file |-> edge.source_file]
        src_parts == RSplit1(edge.source)
        tgt_parts == RSplit1(edge.target)
        with_src == IF edge.edge_type = COLUMN_TO_COLUMN /\ Len(src_parts) = 2
                    THEN [source_table |-> src_parts[1], source_column |-> src_parts[2]]
                         @@ link_data
                    ELSE link_data
    IN IF edge.edge_type = COLUMN_TO_COLUMN /\ Len(tgt_parts) = 2
       THEN [target_table |-> tgt_parts[1], target_column |-> tgt_parts[2]] @@ with_src
       ELSE with_src

\* LineageGraph.to_d3_json
to_d3_json(g) ==
    [nodes |-> [i \in DOMAIN g.tables |-> D3TableNode(g.tables[i])]
               \o [i \in DOMAIN g.columns |-> D3ColumnNode(g.columns[i])],
     links |-> [i \in DOMAIN g.edges |-> D3Link(g.edges[i])]]

(***************************************************************************)
(* core/resolver.py: get_execution_order                                   *)
(***************************************************************************)
\* Every order in which a for loop may visit the elements of a Python set: the
\* iteration order of a set of str depends on the process's hash seed.
IterationOrders(S) ==
    {p \in [1..Cardinality(S) -> S] : \A i, j \in 1..Cardinality(S) : p[i] = p[j] => i = j}

\* d[key] = value on a dict that holds key (a function from its keys).
DictSet(d, key, value) == [k \in DOMAIN d |-> IF k = key THEN value ELSE d[k]]

\* The first loop: adj and in_degree get one entry per table id.
InitialAdj(g) == [adj |-> [t \in Keys(g.tables) |-> {}],
                  in_degree |-> [t \in Keys(g.tables) |-> 0]]

\* CountEdge with the in-degree of the target left as it was.
CountEdgeNoDegree(st, edge) ==
    LET src == Lower(edge.source)
        tgt == Lower(edge.target)
    IN IF edge.edge_type = TABLE_TO_TABLE
          /\ src \in DOMAIN st.adj /\ tgt \in DOMAIN st.in_degree
       THEN [adj |-> DictSet(st.adj, src, st.adj[src] \cup {tgt}),
             in_degree |-> st.in_degree]
       ELSE st

\* One iteration of the loop over graph.edges.
CountEdge(st, edge) ==
    LET src == Lower(edge.source)
        tgt == Lower(edge.target)
    IN IF edge.edge_type = TABLE_TO_TABLE
          /\ src \in DOMAIN st.adj /\ tgt \in DOMAIN st.in_degree
       THEN [adj |-> DictSet(st.adj, src, st.adj[src] \cup {tgt}),
             in_degree |-> DictSet(st.in_degree, tgt, st.in_degree[tgt] + 1)]
       ELSE st

\* The loop over graph.edges.
RECURSIVE BuildAdj(_, _)
BuildAdj(st, edges) ==
    IF edges = <<>> THEN st ELSE BuildAdj(CountEdge(st, Head(edges)), Tail(edges))

\* The keys of in_degree in dict order: the registration order of graph.tables.
RECURSIVE ZeroDegree(_, _)
ZeroDegree(tables, in_degree) ==
    IF tables = <<>> THEN <<>>
    ELSE (IF in_degree[Head(tables).id] = 0 THEN <<Head(tables).id>> ELSE <<>>)
         \o ZeroDegree(Tail(tables), in_degree)

\* The inner for loop of the traversal over the neighbours of one node, visited in
\* the order nbrs; in_degree[neighbor] -= 1 raises KeyError on a missing key.
RECURSIVE VisitNeighbors(_, _)
VisitNeighbors(st, nbrs) ==
    IF nbrs = <<>> \/ st.raised THEN st
    ELSE LET n == Head(nbrs) IN
         IF n \notin DOMAIN st.in_degree
         THEN [st EXCEPT !.raised = TRUE]
         ELSE VisitNeighbors(
                [st EXCEPT !.in_degree = DictSet(@, n, @[n] - 1),
                           !.queue = IF st.in_degree[n] - 1 = 0 THEN Append(@, n) ELSE @],
                Tail(nbrs))

\* The while loop: every state the traversal can end in.
RECURSIVE KahnLoop(_, _)
KahnLoop(adj, st) ==
    IF st.queue = <<>> \/ st.raised THEN {st}
    ELSE LET node == Head(st.queue)
             popped == [st EXCEPT !.queue = Tail(@), !.order = Append(@, node)]
         IN UNION {KahnLoop(adj, VisitNeighbors(popped, p)) :
                     p \in IterationOrders(IF node \in DOMAIN adj THEN adj[node] ELSE {})}

\* Remaining without its "not in order" filter.
RemainingUnfiltered(tables, ord) == [i \in DOMAIN tables |-> tables[i].id]

\* Remaining collecting the unplaced tables from the last registered to the first.
RECURSIVE RemainingReversed(_, _)
RemainingReversed(tables, ord) ==
    IF tables = <<>> THEN <<>>
    ELSE RemainingReversed(Tail(tables), ord)
         \o (IF \E i \in DOMAIN ord : ord[i] = Head(tables).id THEN <<>>
             ELSE <<Head(tables).id>>)

\* remaining = [t for t in graph.tables if t not in order]
RECURSIVE Remaining(_, _)
Remaining(tables, ord) ==
    IF tables = <<>> THEN <<>>
    ELSE (IF \E i \in DOMAIN ord : ord[i] = Head(tables).id THEN <<>> ELSE <<Head(tables).id>>)
         \o Remaining(Tail(tables), ord)

\* get_execution_order(graph): the set of results it can return, each
\* [raised, order]; there is more than one when the order of a set iteration shows.
get_execution_order(g) ==
    LET built == BuildAdj(InitialAdj(g), g.edges)
        start == [queue |-> ZeroDegree(g.tables, built.in_degree), order |-> <<>>,
                  in_degree |-> built.in_degree, raised |-> FALSE]
    IN {[raised |-> st.raised,
         order |-> IF st.raised THEN <<>> ELSE st.order \o Remaining(g.tables, st.order)] :
          st \in KahnLoop(built.adj, start)}

(***************************************************************************)
(* core/extractor.py.  A statement is what the sqlglot tree gives the      *)
(* extractor:                                                              *)
(*   kind         the class the isinstance tests see: "Select", "Insert",  *)
(*                "Create", "Merge" or "Other"                             *)
(*   create_kind  str(statement.args.get("kind")), "" when absent          *)
(*   this         [shape, ref]: statement.this is the exp.Table tables[ref]*)
(*                ("Table"), an exp.Schema whose this is tables[ref]       *)
(*                ("Schema"), or neither ("Other", ref = 0)                *)
(*   tables       statement.find_all(exp.Table) in traversal order, each   *)
(*                [name, db, catalog, alias, parent] (parent: the class of *)
(*                table_expr.parent)                                       *)
(*   ctes         the aliases of with_clause.find_all(exp.CTE)             *)
(*   select       [found, froms, joins, expressions]: the main SELECT, the *)
(*                exp.Table nodes under its From and Join nodes, and its   *)
(*                projections, each [is_alias, alias, inner_is_column,     *)
(*                inner_name, cols, sql] with cols the column references   *)
(*                [name, table] of the projected expression                *)
(*   raises       an accessor of the tree raises while it is processed     *)
(***************************************************************************)
\* _parse_table_ref
parse_table_ref(table_expr) ==
    Table(table_expr.name,
          IF table_expr.db # <<>> THEN table_expr.db ELSE None,
          IF table_expr.catalog # <<>> THEN table_expr.catalog ELSE None)

\* The loop of _get_source_tables over the exp.Table nodes; acc = [sources, seen].
RECURSIVE SourceLoop(_, _)
SourceLoop(acc, table_exprs) ==
    IF table_exprs = <<>> THEN acc
    ELSE LET table_expr == Head(table_exprs)
             table == parse_table_ref(table_expr)
             key == Lower(TableQualifiedName(table))
         IN SourceLoop(
              IF table_expr.parent \in {"Insert", "Create", "Merge"} THEN acc
              ELSE IF table_expr.parent = "CTE" THEN acc
              ELSE IF key \notin acc.seen
                   THEN [sources |-> Append(acc.sources, table), seen |-> acc.seen \cup {key}]
                   ELSE acc,
              Tail(table_exprs))

\* _get_source_tables
get_source_tables(statement) ==
    SourceLoop([sources |-> <<>>, seen |-> {}], statement.tables).sources

\* _get_target_table: a Table, or NoTable for None.
get_target_table(statement) ==
    IF statement.kind = "Insert" /\ statement.this.shape = "Table"
    THEN parse_table_ref(statement.tables[statement.this.ref])
    ELSE IF statement.kind = "Create" /\ statement.this.shape = "Table"
    THEN parse_table_ref(statement.tables[statement.this.ref])
    ELSE IF statement.kind = "Create" /\ statement.this.shape = "Schema"
    THEN parse_table_ref(statement.tables[statement.this.ref])
    ELSE IF statement.kind = "Merge" /\ statement.this.shape = "Table"
    THEN parse_table_ref(statement.tables[statement.this.ref])
    ELSE NoTable

\* _get_cte_names: the keys of the dict it returns.
get_cte_names(statement) ==
    {Lower(statement.ctes[i]) : i \in {j \in DOMAIN statement.ctes : statement.ctes[j] # <<>>}}

\* dict.get(key) on the alias map, a sequence of <<key, Table>> where a later
\* entry overrides an earlier one; NoTable for None.
AliasGet(alias_map, key) ==
    IF \E i \in DOMAIN alias_map : alias_map[i][1] = key
    THEN alias_map[CHOOSE i \in DOMAIN alias_map :
                     /\ alias_map[i][1] = key
                     /\ \A j \in DOMAIN alias_map : alias_map[j][1] = key => j <= i][2]
    ELSE NoTable

\* alias_map[table.name.lower()] = table for the source tables.
RECURSIVE AliasOfSources(_)
AliasOfSources(source_tables) ==
    IF source_tables = <<>> THEN <<>>
    ELSE << <<Lower(Head(source_tables).name), Head(source_tables)>> >>
         \o AliasOfSources(Tail(source_tables))

\* The two loops over the exp.Table nodes under the From and the Join nodes.
RECURSIVE AliasOfExprs(_)
AliasOfExprs(table_exprs) ==
    IF table_exprs = <<>> THEN <<>>
    ELSE LET tbl == parse_table_ref(Head(table_exprs))
             alias == Head(table_exprs).alias
         IN (IF alias # <<>> THEN << <<Lower(alias), tbl>> >> ELSE <<>>)
            \o << <<Lower(tbl.name), tbl>> >>
            \o AliasOfExprs(Tail(table_exprs))

Star == <<"*">>

\* The loop over the column references of one projection.
RECURSIVE ColumnRefEdges(_, _, _, _, _, _)
ColumnRefEdges(cols, alias_map, source_tables, target_col, sql, source_file) ==
    IF cols = <<>> THEN <<>>
    ELSE LET col_ref == Head(cols)
             source_table ==
                 IF col_ref.table # <<>> THEN AliasGet(alias_map, Lower(col_ref.table))
                 ELSE IF Len(source_tables) = 1 THEN source_tables[1]
                 ELSE NoTable
             source_col == [name |-> col_ref.name, table |-> source_table]
         IN (IF col_ref.name = Star THEN <<>>
             ELSE <<LineageEdge(ColumnQualifiedName(source_col),
                                ColumnQualifiedName(target_col),
                                COLUMN_TO_COLUMN, sql, source_file)>>)
            \o ColumnRefEdges(Tail(cols), alias_map, source_tables, target_col, sql,
                              source_file)

\* The loop over select.expressions.
RECURSIVE ProjectionEdges(_, _, _, _, _)
ProjectionEdges(exprs, alias_map, source_tables, target_table, source_file) ==
    IF exprs = <<>> THEN <<>>
    ELSE LET select_expr == Head(exprs)
             has_name == select_expr.is_alias \/ select_expr.inner_is_column
             target_col_name == IF select_expr.is_alias THEN select_expr.alias
                                ELSE select_expr.inner_name
         IN (IF ~has_name THEN <<>>
             ELSE IF target_col_name = Star THEN <<>>
             ELSE ColumnRefEdges(select_expr.cols, alias_map, source_tables,
                                 [name |-> target_col_name, table |-> target_table],
                                 select_expr.sql, source_file))
            \o ProjectionEdges(Tail(exprs), alias_map, source_tables, target_table,
                               source_file)

\* _extract_column_lineage
extract_column_lineage(statement, target_table, source_tables, source_file) ==
    IF target_table = NoTable THEN <<>>
    ELSE IF ~statement.select.found THEN <<>>
    ELSE ProjectionEdges(statement.select.expressions,
                         AliasOfSources(source_tables)
                           \o AliasOfExprs(statement.select.froms)
                           \o AliasOfExprs(statement.select.joins),
                         source_tables, target_table, source_file)

\* RegisterSources with the endpoints of the edge exchanged: target -> source.
RECURSIVE RegisterSourcesReversed(_, _, _, _, _, _, _)
RegisterSourcesReversed(g, source_tables, ctes, source_file, with_cte, with_edge, target_table) ==
    IF source_tables = <<>> THEN g
    ELSE LET is_cte == with_cte /\ Lower(Head(source_tables).name) \in ctes
             src == [Head(source_tables) EXCEPT !.source_file = source_file,
                                                !.is_cte = is_cte]
             g1 == add_table(g, src, IF is_cte THEN "cte" ELSE "table")
             g2 == IF with_edge
                   THEN add_edge(g1, LineageEdge(TableQualifiedName(target_table),
                                                 TableQualifiedName(src),
                                                 TABLE_TO_TABLE, None, source_file))
                   ELSE g1
         IN RegisterSourcesReversed(g2, Tail(source_tables), ctes, source_file, with_cte,
                                    with_edge, target_table)

\* The loops of _process_statement that register the sources; with_cte: the
\* loop sets is_cte and the node type from the CTE names; with_edge: it adds
\* the table_to_table edge to target_table.
RECURSIVE RegisterSources(_, _, _, _, _, _, _)
RegisterSources(g, source_tables, ctes, source_file, with_cte, with_edge, target_table) ==
    IF source_tables = <<>> THEN g
    ELSE LET is_cte == with_cte /\ Lower(Head(source_tables).name) \in ctes
             src == [Head(source_tables) EXCEPT !.source_file = source_file,
                                                !.is_cte = is_cte]
             g1 == add_table(g, src, IF is_cte THEN "cte" ELSE "table")
             g2 == IF with_edge
                   THEN add_edge(g1, LineageEdge(TableQualifiedName(src),
                                                 TableQualifiedName(target_table),
                                                 TABLE_TO_TABLE, None, source_file))
                   ELSE g1
         IN RegisterSources(g2, Tail(source_tables), ctes, source_file, with_cte,
                            with_edge, target_table)

\* The loop of _process_statement over col_edges.
RECURSIVE RegisterColumnEdges(_, _)
RegisterColumnEdges(g, col_edges) ==
    IF col_edges = <<>> THEN g
    ELSE LET col_edge == Head(col_edges)
             sparts == RSplit1(col_edge.source)
             g1 == IF Len(sparts) = 2
                   THEN add_column(g, [name |-> sparts[2],
                                       table |-> Table(SplitLast(sparts[1]), None, None)])
                   ELSE g
             tparts == RSplit1(col_edge.target)
             g2 == IF Len(tparts) = 2
                   THEN add_column(g1, [name |-> tparts[2],
                                        table |-> Table(SplitLast(tparts[1]), None, None)])
                   ELSE g1
         IN RegisterColumnEdges(add_edge(g2, col_edge), Tail(col_edges))

\* target_node_type without the test for a view creation.
target_node_type_always_table(statement) == "table"

\* The node type _process_statement gives the target: "view" for a Create whose
\* kind is set and reads VIEW in upper case, else "table".
target_node_type(statement) ==
    IF statement.kind = "Create" /\ statement.create_kind # <<>>
       /\ Upper(statement.create_kind) = <<"V", "I", "E", "W">>
    THEN "view" ELSE "table"

\* _process_statement giving a plain SELECT the virtual target its comment
\* speaks of: the sources are registered with an edge to it.
process_statement_virtual_target(statement, g, source_file, with_columns) ==
    LET ctes == get_cte_names(statement)
        target_table == get_target_table(statement)
        source_tables == get_source_tables(statement)
        virtual == [Table(<<"s", "e", "l", "e", "c", "t">>, None, None)
                      EXCEPT !.source_file = source_file]
    IN IF target_table = NoTable /\ statement.kind = "Select"
       THEN RegisterSources(add_table(g, virtual, "table"), source_tables, ctes,
                            source_file, TRUE, TRUE, virtual)
       ELSE IF target_table = NoTable
       THEN RegisterSources(g, source_tables, ctes, source_file, FALSE, FALSE, NoTable)
       ELSE LET target == [target_table EXCEPT !.source_file = source_file]
                g1 == add_table(g, target, target_node_type(statement))
                g2 == RegisterSources(g1, source_tables, ctes, source_file, TRUE, TRUE,
                                      target)
            IN IF with_columns
               THEN RegisterColumnEdges(g2,
                        extract_column_lineage(statement, target, source_tables,
                                               source_file))
               ELSE g2

\* _process_statement, for a statement that does not raise.
process_statement(statement, g, source_file, with_columns) ==
    LET ctes == get_cte_names(statement)
        target_table == get_target_table(statement)
        source_tables == get_source_tables(statement)
    IN IF target_table = NoTable /\ statement.kind = "Select"
       THEN RegisterSources(g, source_tables, ctes, source_file, TRUE, FALSE, NoTable)
       ELSE IF target_table = NoTable
       THEN RegisterSources(g, source_tables, ctes, source_file, FALSE, FALSE, NoTable)
       ELSE LET target == [target_table EXCEPT !.source_file = source_file]
                g1 == add_table(g, target, target_node_type(statement))
                g2 == RegisterSources(g1, source_tables, ctes, source_file, TRUE, TRUE,
                                      target)
            IN IF with_columns
               THEN RegisterColumnEdges(g2,
                        extract_column_lineage(statement, target, source_tables,
                                               source_file))
               ELSE g2

\* extract_lineage: [raised, graph]; raised when a statement raises, and then
\* the caller never sees the graph.
RECURSIVE ExtractLoop(_, _, _, _)
ExtractLoop(g, statements, source_file, with_columns) ==
    IF statements = <<>> THEN [raised |-> FALSE, graph |-> g]
    ELSE IF Head(statements).raises THEN [raised |-> TRUE, graph |-> EmptyGraph]
    ELSE ExtractLoop(process_statement(Head(statements), g, source_file, with_columns),
                     Tail(statements), source_file, with_columns)

extract_lineage(statements, source_file, with_columns) ==
    ExtractLoop(EmptyGraph, statements, source_file, with_columns)

(***************************************************************************)
(* Inputs: the statements, sources and graph operations the model draws    *)
(* from.                                                                   *)
(***************************************************************************)
TblExpr(name, db, alias, parent) ==
    [name |-> name, db |-> db, catalog |-> <<>>, alias |-> alias, parent |-> parent]

ColRef(name, table) == [name |-> name, table |-> table]

\* A projection that is a plain column reference.
ProjColumn(name, table) ==
    [is_alias |-> FALSE, alias |-> <<>>, inner_is_column |-> TRUE, inner_name |-> name,
     cols |-> <<ColRef(name, table)>>, sql |-> name]

\* A projection "expr AS alias" over the column references cols.
ProjAlias(alias, cols) ==
    [is_alias |-> TRUE, alias |-> alias, inner_is_column |-> FALSE, inner_name |-> <<>>,
     cols |-> cols, sql |-> alias]

\* The projection "*" (exp.Star, not a column).
ProjStar ==
    [is_alias |-> FALSE, alias |-> <<>>, inner_is_column |-> FALSE, inner_name |-> <<>>,
     cols |-> <<>>, sql |-> Star]

NoSelect == [found |-> FALSE, froms |-> <<>>, joins |-> <<>>, expressions |-> <<>>]

KindTable == <<"T", "A", "B", "L", "E">>
KindView == <<"V", "I", "E", "W">>

\* CREATE TABLE b AS SELECT x FROM a
StmtCreateB ==
    [kind |-> "Create", create_kind |-> KindTable, this |-> [shape |-> "Table", ref |-> 1],
     tables |-> <<TblExpr(<<"b">>, <<>>, <<>>, "Create"), TblExpr(<<"a">>, <<>>, <<>>, "From")>>,
     ctes |-> <<>>,
     select |-> [found |-> TRUE, froms |-> <<TblExpr(<<"a">>, <<>>, <<>>, "From")>>,
                 joins |-> <<>>, expressions |-> <<ProjColumn(<<"x">>, <<>>)>>],
     raises |-> FALSE]

\* CREATE TABLE c AS SELECT B.x AS y FROM B
StmtCreateC ==
    [kind |-> "Create", create_kind |-> KindTable, this |-> [shape |-> "Table", ref |-> 1],
     tables |-> <<TblExpr(<<"c">>, <<>>, <<>>, "Create"), TblExpr(<<"B">>, <<>>, <<>>, "From")>>,
     ctes |-> <<>>,
     select |-> [found |-> TRUE, froms |-> <<TblExpr(<<"B">>, <<>>, <<>>, "From")>>,
                 joins |-> <<>>,
                 expressions |-> <<ProjAlias(<<"y">>, <<ColRef(<<"x">>, <<"B">>)>>)>>],
     raises |-> FALSE]

\* CREATE VIEW A AS SELECT * FROM c
StmtViewA ==
    [kind |-> "Create", create_kind |-> KindView, this |-> [shape |-> "Table", ref |-> 1],
     tables |-> <<TblExpr(<<"A">>, <<>>, <<>>, "Create"), TblExpr(<<"c">>, <<>>, <<>>, "From")>>,
     ctes |-> <<>>,
     select |-> [found |-> TRUE, froms |-> <<TblExpr(<<"c">>, <<>>, <<>>, "From")>>,
                 joins |-> <<>>, expressions |-> <<ProjStar>>],
     raises |-> FALSE]

\* SELECT * FROM a JOIN b ON a.x = b.x
StmtSelectJoin ==
    [kind |-> "Select", create_kind |-> <<>>, this |-> [shape |-> "Other", ref |-> 0],
     tables |-> <<TblExpr(<<"a">>, <<>>, <<>>, "From"), TblExpr(<<"b">>, <<>>, <<>>, "Join")>>,
     ctes |-> <<>>,
     select |-> [found |-> TRUE, froms |-> <<TblExpr(<<"a">>, <<>>, <<>>, "From")>>,
                 joins |-> <<TblExpr(<<"b">>, <<>>, <<>>, "Join")>>,
                 expressions |-> <<ProjStar>>],
     raises |-> FALSE]

\* INSERT INTO c SELECT x FROM a JOIN b ON a.x = b.x
StmtInsertC ==
    [kind |-> "Insert", create_kind |-> <<>>, this |-> [shape |-> "Table", ref |-> 1],
     tables |-> <<TblExpr(<<"c">>, <<>>, <<>>, "Insert"), TblExpr(<<"a">>, <<>>, <<>>, "From"),
                  TblExpr(<<"b">>, <<>>, <<>>, "Join")>>,
     ctes |-> <<>>,
     select |-> [found |-> TRUE, froms |-> <<TblExpr(<<"a">>, <<>>, <<>>, "From")>>,
                 joins |-> <<TblExpr(<<"b">>, <<>>, <<>>, "Join")>>,
                 expressions |-> <<ProjColumn(<<"x">>, <<>>)>>],
     raises |-> FALSE]

\* CREATE TABLE s.b AS SELECT t.x FROM S.a AS t
StmtCreateQualified ==
    [kind |-> "Create", create_kind |-> KindTable, this |-> [shape |-> "Table", ref |-> 1],
     tables |-> <<TblExpr(<<"b">>, <<"s">>, <<>>, "Create"),
                  TblExpr(<<"a">>, <<"S">>, <<"t">>, "From")>>,
     ctes |-> <<>>,
     select |-> [found |-> TRUE, froms |-> <<TblExpr(<<"a">>, <<"S">>, <<"t">>, "From")>>,
                 joins |-> <<>>, expressions |-> <<ProjColumn(<<"x">>, <<"t">>)>>],
     raises |-> FALSE]

\* A statement whose tree raises as soon as the extractor reads it.
StmtRaises ==
    [kind |-> "Other", create_kind |-> <<>>, this |-> [shape |-> "Other", ref |-> 0],
     tables |-> <<>>, ctes |-> <<>>, select |-> NoSelect, raises |-> TRUE]

\* The sources of a batch: (file_name, sql_content), the content given by what
\* parse_sql makes of it: it raises (parse_ok = FALSE) or returns statements.
Sources ==
    << [file_name |-> <<"f", "1">>, parse_ok |-> TRUE, statements |-> <<StmtCreateB>>],
       [file_name |-> <<"f", "2">>, parse_ok |-> TRUE,
        statements |-> <<StmtCreateC, StmtSelectJoin>>],
       [file_name |-> <<"f", "3">>, parse_ok |-> TRUE, statements |-> <<StmtViewA>>],
       [file_name |-> <<"f", "4">>, parse_ok |-> FALSE, statements |-> <<>>],
       [file_name |-> <<"f", "5">>, parse_ok |-> TRUE,
        statements |-> <<StmtInsertC, StmtRaises>>],
       [file_name |-> <<"f", "6">>, parse_ok |-> TRUE,
        statements |-> <<StmtCreateQualified>>] >>

\* The tables add_table is called with: (table, node_type).
TableInputs ==
    << [table |-> Table(<<"a">>, None, None), node_type |-> "table"],
       [table |-> [Table(<<"A">>, None, None) EXCEPT !.source_file = <<"f", "1">>],
        node_type |-> "view"],
       [table |-> Table(<<"b">>, None, None), node_type |-> "table"],
       [table |-> [Table(<<"c">>, None, None) EXCEPT !.is_cte = TRUE], node_type |-> "cte"] >>

\* The columns add_column is called with.
ColumnInputs ==
    << [name |-> <<"x">>, table |-> Table(<<"a">>, None, None)],
       [name |-> <<"X">>, table |-> Table(<<"A">>, None, None)],
       [name |-> <<"x">>, table |-> NoTable] >>

\* The edges add_edge is called with.
EdgeInputs ==
    << LineageEdge(<<"a">>, <<"b">>, TABLE_TO_TABLE, None, None),
       LineageEdge(<<"A">>, <<"B">>, TABLE_TO_TABLE, None, <<"f", "1">>),
       LineageEdge(<<"a">>, <<"c">>, TABLE_TO_TABLE, None, None),
       LineageEdge(<<"b">>, <<"c">>, TABLE_TO_TABLE, None, None),
       LineageEdge(<<"b">>, <<"a">>, TABLE_TO_TABLE, None, None),
       LineageEdge(<<"c">>, <<"c">>, TABLE_TO_TABLE, None, None),
       LineageEdge(<<"a">>, <<"b">>, COLUMN_TO_COLUMN, <<"x">>, None) >>

\* The graphs merge is called with: what extract_lineage returns for a source.
SourceGraph(i, with_columns) ==
    extract_lineage(Sources[i].statements, Sources[i].file_name, with_columns).graph

MergeInputs ==
    <<SourceGraph(1, FALSE), SourceGraph(2, TRUE), SourceGraph(3, FALSE), SourceGraph(6, TRUE)>>

(***************************************************************************)
(* Spec: one graph under add_table, add_column, add_edge and merge.        *)
(***************************************************************************)
NoOrder == [raised |-> FALSE, order |-> <<>>]

ResolverIdle ==
    /\ file_graph = EmptyGraph
    /\ batch = <<>>
    /\ idx = 0
    /\ stmt_idx = 0
    /\ include_columns = FALSE
    /\ warnings = <<>>
    /\ returned = <<>>

Init ==
    /\ graph = EmptyGraph
    /\ order = NoOrder
    /\ pc = "build"
    /\ last = [op |-> "init", arg |-> 0, again |-> FALSE]
    /\ nops = 0
    /\ ResolverIdle

\* One operation op(arg) that takes the graph to g; last records it, and
\* whether it repeats the operation before it.
Operate(op, arg, g) ==
    /\ nops < MaxOps
    /\ nops' = nops + 1
    /\ graph' = g
    /\ last' = [op |-> op, arg |-> arg, again |-> (last.op = op /\ last.arg = arg)]
    /\ UNCHANGED <<file_graph, order, pc, batch, idx, stmt_idx, include_columns, warnings,
                   returned>>

AddTable ==
    \E i \in DOMAIN TableInputs :
        Operate("add_table", i, add_table(graph, TableInputs[i].table, TableInputs[i].node_type))

AddColumn ==
    \E i \in DOMAIN ColumnInputs : Operate("add_column", i, add_column(graph, ColumnInputs[i]))

AddEdge ==
    \E i \in DOMAIN EdgeInputs : Operate("add_edge", i, add_edge(graph, EdgeInputs[i]))

Merge ==
    \E i \in DOMAIN MergeInputs : Operate("merge", i, merge(graph, MergeInputs[i]))

\* graph.merge(graph)
MergeSelf == Operate("merge_self", 0, merge(graph, graph))

Next == AddTable \/ AddColumn \/ AddEdge \/ Merge \/ MergeSelf

Spec == Init /\ [][Next]_vars

(***************************************************************************)
(* SpecOrder: a graph is built, then get_execution_order, get_upstream or   *)
(* get_downstream is applied to it.                                        *)
(***************************************************************************)
\* The tables, edges and graph the ordered graph is built from.
OrderTableInputs == {1, 3, 4}
OrderEdgeInputs == {1, 3, 4, 5, 6, 7}
OrderMergeInput == SourceGraph(2, FALSE)

\* One building step that takes the graph to g.
Build(g) ==
    /\ pc = "build"
    /\ Len(g.edges) <= MaxEdges
    /\ graph' = g
    /\ UNCHANGED <<file_graph, order, pc, batch, idx, stmt_idx, include_columns, warnings,
                   last, nops, returned>>

OrderAddTable ==
    \E i \in OrderTableInputs :
        Build(add_table(graph, TableInputs[i].table, TableInputs[i].node_type))

OrderAddEdge == \E i \in OrderEdgeInputs : Build(add_edge(graph, EdgeInputs[i]))

OrderMerge == Build(merge(graph, OrderMergeInput))

GetExecutionOrder ==
    /\ pc = "build"
    /\ order' \in get_execution_order(graph)
    /\ pc' = "ordered"
    /\ UNCHANGED <<graph, file_graph, batch, idx, stmt_idx, include_columns, warnings, last,
                   nops, returned>>

\* The ids get_upstream and get_downstream are asked about.
QueryIds == {<<"a">>, <<"A">>, <<"b">>, <<"B">>, <<"c">>, <<"C">>}

\* graph.get_upstream(node_id); returned holds the argument and the list returned.
GetUpstream ==
    /\ pc = "build"
    /\ \E node_id \in QueryIds : returned' = <<node_id, get_upstream(graph, node_id)>>
    /\ pc' = "upstream"
    /\ UNCHANGED <<graph, file_graph, order, batch, idx, stmt_idx, include_columns, warnings,
                   last, nops>>

\* graph.get_downstream(node_id)
GetDownstream ==
    /\ pc = "build"
    /\ \E node_id \in QueryIds : returned' = <<node_id, get_downstream(graph, node_id)>>
    /\ pc' = "downstream"
    /\ UNCHANGED <<graph, file_graph, order, batch, idx, stmt_idx, include_columns, warnings,
                   last, nops>>

NextOrder ==
    OrderAddTable \/ OrderAddEdge \/ OrderMerge \/ GetExecutionOrder \/ GetUpstream
      \/ GetDownstream

SpecOrder == Init /\ [][NextOrder]_vars

(***************************************************************************)
(* SpecResolve: resolve_sql_strings over a batch of sources, step by step. *)
(* pc = "loop": at the head of the for loop, source idx is next;           *)
(* pc = "extract": inside extract_lineage, statement stmt_idx is next;     *)
(* pc = "returned": the function has returned, returned holds the values   *)
(*                  its caller receives;                                   *)
(* pc = "raised": an exception has left resolve_sql_strings.               *)
(***************************************************************************)
Batches == UNION {[1..n -> DOMAIN Sources] : n \in 0..MaxBatch}

InitResolve ==
    /\ batch \in Batches
    /\ include_columns \in BOOLEAN
    /\ graph = EmptyGraph
    /\ file_graph = EmptyGraph
    /\ idx = 1
    /\ stmt_idx = 0
    /\ warnings = <<>>
    /\ returned = <<>>
    /\ pc = "loop"
    /\ order = NoOrder
    /\ last = [op |-> "init", arg |-> 0, again |-> FALSE]
    /\ nops = 0

Current == Sources[batch[idx]]

\* ParseFails with an except clause that prints nothing.
ParseFailsSilent ==
    /\ pc = "loop" /\ idx <= Len(batch)
    /\ ~Current.parse_ok
    /\ idx' = idx + 1
    /\ UNCHANGED <<graph, file_graph, order, pc, batch, stmt_idx, include_columns, warnings,
                   last, nops, returned>>

\* parse_sql raises: the except clause prints the warning, which names the
\* source (warnings holds the file names printed), and the loop goes on.
ParseFails ==
    /\ pc = "loop" /\ idx <= Len(batch)
    /\ ~Current.parse_ok
    /\ warnings' = Append(warnings, Current.file_name)
    /\ idx' = idx + 1
    /\ UNCHANGED <<graph, file_graph, order, pc, batch, stmt_idx, include_columns, last, nops,
                   returned>>

\* parse_sql returns the statements; extract_lineage starts on an empty graph.
ParseOk ==
    /\ pc = "loop" /\ idx <= Len(batch)
    /\ Current.parse_ok
    /\ file_graph' = EmptyGraph
    /\ stmt_idx' = 1
    /\ pc' = "extract"
    /\ UNCHANGED <<graph, order, batch, idx, include_columns, warnings, last, nops, returned>>

\* ProcessStatement with include_columns not passed on: the default, True, applies.
ProcessStatementDefaultColumns ==
    /\ pc = "extract" /\ stmt_idx <= Len(Current.statements)
    /\ ~Current.statements[stmt_idx].raises
    /\ file_graph' = process_statement(Current.statements[stmt_idx], file_graph,
                                       Current.file_name, TRUE)
    /\ stmt_idx' = stmt_idx + 1
    /\ UNCHANGED <<graph, order, pc, batch, idx, include_columns, warnings, last, nops,
                   returned>>

\* One iteration of extract_lineage's loop: _process_statement on the file's graph.
ProcessStatement ==
    /\ pc = "extract" /\ stmt_idx <= Len(Current.statements)
    /\ ~Current.statements[stmt_idx].raises
    /\ file_graph' = process_statement(Current.statements[stmt_idx], file_graph,
                                       Current.file_name, include_columns)
    /\ stmt_idx' = stmt_idx + 1
    /\ UNCHANGED <<graph, order, pc, batch, idx, include_columns, warnings, last, nops,
                   returned>>

\* ExtractFails with an except clause that does not match: the exception leaves
\* resolve_sql_strings.
ExtractFailsPropagates ==
    /\ pc = "extract" /\ stmt_idx <= Len(Current.statements)
    /\ Current.statements[stmt_idx].raises
    /\ pc' = "raised"
    /\ UNCHANGED <<graph, file_graph, order, batch, idx, stmt_idx, include_columns, warnings,
                   last, nops, returned>>

\* _process_statement raises: the file's graph is dropped with extract_lineage's
\* frame, the except clause prints the warning, the loop goes on.
ExtractFails ==
    /\ pc = "extract" /\ stmt_idx <= Len(Current.statements)
    /\ Current.statements[stmt_idx].raises
    /\ warnings' = Append(warnings, Current.file_name)
    /\ file_graph' = EmptyGraph
    /\ stmt_idx' = 0
    /\ idx' = idx + 1
    /\ pc' = "loop"
    /\ UNCHANGED <<graph, order, batch, include_columns, last, nops, returned>>

\* extract_lineage returns; unified_graph.merge(file_graph).
MergeFile ==
    /\ pc = "extract" /\ stmt_idx > Len(Current.statements)
    /\ graph' = merge(graph, file_graph)
    /\ file_graph' = EmptyGraph
    /\ stmt_idx' = 0
    /\ idx' = idx + 1
    /\ pc' = "loop"
    /\ UNCHANGED <<order, batch, include_columns, warnings, last, nops, returned>>

\* return unified_graph: the caller receives one value, the graph.
Return ==
    /\ pc = "loop" /\ idx > Len(batch)
    /\ pc' = "returned"
    /\ returned' = <<graph>>
    /\ UNCHANGED <<graph, file_graph, order, batch, idx, stmt_idx, include_columns, warnings,
                   last, nops>>

NextResolve == ParseFails \/ ParseOk \/ ProcessStatement \/ ExtractFails \/ MergeFile \/ Return

SpecResolve == InitResolve /\ [][NextResolve]_vars

(***************************************************************************)
(* SpecExtract: extract_lineage over a list of statements, step by step.   *)
(* batch holds the statements (indices into Statements), file_graph the    *)
(* graph of the call, stmt_idx the statement the loop is at; the graph     *)
(* returned is then serialized (pc = "serialized").                        *)
(***************************************************************************)
\* CREATE TABLE a (x INT): statement.this is an exp.Schema around the exp.Table.
StmtCreateSchema ==
    [kind |-> "Create", create_kind |-> KindTable, this |-> [shape |-> "Schema", ref |-> 1],
     tables |-> <<TblExpr(<<"a">>, <<>>, <<>>, "Schema")>>,
     ctes |-> <<>>, select |-> NoSelect, raises |-> FALSE]

\* INSERT INTO c (x) WITH t AS (SELECT x FROM a) SELECT x FROM T: statement.this
\* is an exp.Schema, which _get_target_table does not unwrap for an Insert.
StmtInsertColumns ==
    [kind |-> "Insert", create_kind |-> <<>>, this |-> [shape |-> "Schema", ref |-> 1],
     tables |-> <<TblExpr(<<"c">>, <<>>, <<>>, "Schema"), TblExpr(<<"T">>, <<>>, <<>>, "From"),
                  TblExpr(<<"a">>, <<>>, <<>>, "From")>>,
     ctes |-> <<<<"t">>>>,
     select |-> [found |-> TRUE, froms |-> <<TblExpr(<<"T">>, <<>>, <<>>, "From")>>,
                 joins |-> <<>>, expressions |-> <<ProjColumn(<<"x">>, <<>>)>>],
     raises |-> FALSE]

\* WITH t AS (SELECT x FROM a) SELECT x FROM T
StmtCteSelect ==
    [kind |-> "Select", create_kind |-> <<>>, this |-> [shape |-> "Other", ref |-> 0],
     tables |-> <<TblExpr(<<"T">>, <<>>, <<>>, "From"), TblExpr(<<"a">>, <<>>, <<>>, "From")>>,
     ctes |-> <<<<"t">>>>,
     select |-> [found |-> TRUE, froms |-> <<TblExpr(<<"T">>, <<>>, <<>>, "From")>>,
                 joins |-> <<>>, expressions |-> <<ProjColumn(<<"x">>, <<>>)>>],
     raises |-> FALSE]

\* CREATE TABLE b AS WITH t AS (SELECT x FROM a) SELECT x FROM t
StmtCteCreate ==
    [kind |-> "Create", create_kind |-> KindTable, this |-> [shape |-> "Table", ref |-> 1],
     tables |-> <<TblExpr(<<"b">>, <<>>, <<>>, "Create"), TblExpr(<<"t">>, <<>>, <<>>, "From"),
                  TblExpr(<<"a">>, <<>>, <<>>, "From")>>,
     ctes |-> <<<<"t">>>>,
     select |-> [found |-> TRUE, froms |-> <<TblExpr(<<"t">>, <<>>, <<>>, "From")>>,
                 joins |-> <<>>, expressions |-> <<ProjColumn(<<"x">>, <<>>)>>],
     raises |-> FALSE]

\* INSERT INTO c SELECT x FROM a UNION ALL SELECT x FROM A
StmtInsertUnion ==
    [kind |-> "Insert", create_kind |-> <<>>, this |-> [shape |-> "Table", ref |-> 1],
     tables |-> <<TblExpr(<<"c">>, <<>>, <<>>, "Insert"), TblExpr(<<"a">>, <<>>, <<>>, "From"),
                  TblExpr(<<"A">>, <<>>, <<>>, "From")>>,
     ctes |-> <<>>,
     select |-> [found |-> TRUE, froms |-> <<TblExpr(<<"a">>, <<>>, <<>>, "From")>>,
                 joins |-> <<>>, expressions |-> <<ProjColumn(<<"x">>, <<>>)>>],
     raises |-> FALSE]

\* UPDATE a SET x = 1: none of Select, Insert, Create, Merge.
StmtUpdate ==
    [kind |-> "Other", create_kind |-> <<>>, this |-> [shape |-> "Table", ref |-> 1],
     tables |-> <<TblExpr(<<"a">>, <<>>, <<>>, "Update")>>,
     ctes |-> <<>>, select |-> NoSelect, raises |-> FALSE]

\* MERGE INTO c USING a ON c.x = a.x WHEN MATCHED THEN UPDATE SET x = a.x
\* (the table after USING is an argument of the Merge node, as the target is).
StmtMerge ==
    [kind |-> "Merge", create_kind |-> <<>>, this |-> [shape |-> "Table", ref |-> 1],
     tables |-> <<TblExpr(<<"c">>, <<>>, <<>>, "Merge"), TblExpr(<<"a">>, <<>>, <<>>, "Merge")>>,
     ctes |-> <<>>, select |-> NoSelect, raises |-> FALSE]

\* The statements extract_lineage is called with.
Statements ==
    <<StmtCreateB, StmtCreateC, StmtViewA, StmtSelectJoin, StmtInsertC, StmtCreateQualified,
      StmtRaises, StmtCreateSchema, StmtInsertColumns, StmtCteSelect, StmtCteCreate,
      StmtInsertUnion, StmtUpdate, StmtMerge>>

ExtractFile == <<"f", "1">>

StatementLists == UNION {[1..n -> DOMAIN Statements] : n \in 0..MaxStmts}

InitExtract ==
    /\ batch \in StatementLists
    /\ include_columns \in BOOLEAN
    /\ graph = EmptyGraph
    /\ file_graph = EmptyGraph
    /\ idx = 0
    /\ stmt_idx = 1
    /\ warnings = <<>>
    /\ returned = <<>>
    /\ pc = "extract"
    /\ order = NoOrder
    /\ last = [op |-> "init", arg |-> 0, again |-> FALSE]
    /\ nops = 0

\* The statement the loop of extract_lineage is at.
CurrentStatement == Statements[batch[stmt_idx]]

\* One iteration of the loop: _process_statement(statement, graph, ...).
ExtractStatement ==
    /\ pc = "extract" /\ stmt_idx <= Len(batch)
    /\ ~CurrentStatement.raises
    /\ file_graph' = process_statement(CurrentStatement, file_graph, ExtractFile,
                                       include_columns)
    /\ stmt_idx' = stmt_idx + 1
    /\ UNCHANGED <<graph, order, pc, batch, idx, include_columns, warnings, last, nops,
                   returned>>

\* _process_statement raises: the exception leaves extract_lineage.
ExtractRaises ==
    /\ pc = "extract" /\ stmt_idx <= Len(batch)
    /\ CurrentStatement.raises
    /\ pc' = "raised"
    /\ UNCHANGED <<graph, file_graph, order, batch, idx, stmt_idx, include_columns, warnings,
                   last, nops, returned>>

\* return graph
ExtractReturn ==
    /\ pc = "extract" /\ stmt_idx > Len(batch)
    /\ pc' = "returned"
    /\ returned' = <<file_graph>>
    /\ UNCHANGED <<graph, file_graph, order, batch, idx, stmt_idx, include_columns, warnings,
                   last, nops>>

\* graph.to_d3_json() on the graph extract_lineage returned.
ToD3Json ==
    /\ pc = "returned"
    /\ pc' = "serialized"
    /\ returned' = <<to_d3_json(file_graph)>>
    /\ UNCHANGED <<graph, file_graph, order, batch, idx, stmt_idx, include_columns, warnings,
                   last, nops>>

NextExtract == ExtractStatement \/ ExtractRaises \/ ExtractReturn \/ ToD3Json

SpecExtract == InitExtract /\ [][NextExtract]_vars

(***************************************************************************)
(* Execution order: C1, C2, C3 (under SpecOrder).                          *)
(***************************************************************************)
\* The table_to_table edges of g between registered tables, as pairs of table ids.
TableEdges(g) ==
    {pr \in {<<Lower(g.edges[i].source), Lower(g.edges[i].target)>> :
               i \in {j \in DOMAIN g.edges : g.edges[j].edge_type = TABLE_TO_TABLE}} :
       pr[1] \in Keys(g.tables) /\ pr[2] \in Keys(g.tables)}

\* The table_to_table edges of g with an endpoint that is no registered table.
DanglingEdges(g) ==
    {i \in DOMAIN g.edges :
       /\ g.edges[i].edge_type = TABLE_TO_TABLE
       /\ \/ Lower(g.edges[i].source) \notin Keys(g.tables)
          \/ Lower(g.edges[i].target) \notin Keys(g.tables)}

\* The transitive closure of a relation.
RECURSIVE Closure(_)
Closure(R) ==
    LET R2 == R \cup {<<pq[1][1], pq[2][2]>> : pq \in {x \in R \X R : x[1][2] = x[2][1]}}
    IN IF R2 = R THEN R ELSE Closure(R2)

Acyclic(R) == \A p \in Closure(R) : p[1] # p[2]

\* The edge u -> v lies on a cycle of R: v reaches u (u = v for a self-loop).
OnCycle(R, p) == p[1] = p[2] \/ <<p[2], p[1]>> \in Closure(R)

\* u is placed before v in the sequence ord.
Before(ord, u, v) == \E i, j \in DOMAIN ord : i < j /\ ord[i] = u /\ ord[j] = v

\* C1: when the table_to_table edges between registered tables hold no cycle and
\* no self-loop, get_execution_order returns without error and places u before v
\* for every such edge u -> v.
C1_AcyclicOrderRespectsEdges ==
    (pc = "ordered" /\ Acyclic(TableEdges(graph)))
        => /\ ~order.raised
           /\ \A p \in TableEdges(graph) : Before(order.order, p[1], p[2])

\* C1's case: an acyclic graph of three dependent tables, one of them with two
\* successors, has been ordered.
C1_Witness ==
    /\ pc = "ordered"
    /\ Acyclic(TableEdges(graph))
    /\ Cardinality(TableEdges(graph)) >= 3
    /\ \E p, q \in TableEdges(graph) : p[1] = q[1] /\ p[2] # q[2]

\* C2: in every graph, cyclic or not, get_execution_order places u before v for
\* every table_to_table edge u -> v between registered tables that does not lie
\* on a cycle.
C2_NonCycleEdgesRespected ==
    pc = "ordered"
        => \A p \in TableEdges(graph) :
             ~OnCycle(TableEdges(graph), p) => Before(order.order, p[1], p[2])

\* C3: for every graph get_execution_order returns without error a sequence that
\* holds every table id exactly once and nothing else.
C3_OrderIsTotal ==
    pc = "ordered"
        => /\ ~order.raised
           /\ Len(order.order) = Len(graph.tables)
           /\ {order.order[i] : i \in DOMAIN order.order} = Keys(graph.tables)

\* C3's case: a graph with a cycle, a table outside it and an edge with an
\* unregistered endpoint has been ordered.
C3_Witness ==
    /\ pc = "ordered"
    /\ ~Acyclic(TableEdges(graph))
    /\ DanglingEdges(graph) # {}
    /\ Len(graph.tables) >= 2

(***************************************************************************)
(* The graph's identity rules: C4, C5, C6, C7 (under Spec).                *)
(***************************************************************************)
\* C4: after any sequence of add_edge and merge operations no two entries of the
\* edge list have the same (lowercased source, lowercased target, edge_type).
C4_NoDuplicateEdge ==
    \A i, j \in DOMAIN graph.edges :
        EdgeKey(graph.edges[i]) = EdgeKey(graph.edges[j]) => i = j

\* C4's case: add_edge has just been given "A" -> "B" while the list holds "a" -> "b".
C4_Witness ==
    /\ last.op = "add_edge" /\ last.arg = 2
    /\ \E i \in DOMAIN graph.edges : graph.edges[i] = EdgeInputs[1]

\* The qualified name a table node's own fields spell.
NodeQualifiedName(node) ==
    JoinDot((IF node.database # <<>> THEN <<node.database>> ELSE <<>>)
            \o (IF node.schema_name # <<>> THEN <<node.schema_name>> ELSE <<>>)
            \o <<node.name>>)

\* C5: tables whose qualified names differ only in letter case are one table
\* node, keyed by the lowercased qualified name.
C5_CaseInsensitiveIdentity ==
    /\ \A i, j \in DOMAIN graph.tables :
         Lower(NodeQualifiedName(graph.tables[i])) = Lower(NodeQualifiedName(graph.tables[j]))
            => i = j
    /\ \A i \in DOMAIN graph.tables :
         graph.tables[i].id = Lower(NodeQualifiedName(graph.tables[i]))

\* C5's case: add_table has just been given "a" while the graph holds the node
\* registered as "A".
C5_Witness ==
    /\ last.op = "add_table" /\ last.arg = 1
    /\ \E i \in DOMAIN graph.tables :
         graph.tables[i].name = <<"A">> /\ graph.tables[i].id = <<"a">>

\* C6: a table node present before an add_table or merge is the same node
\* after it: name, schema, database, source_file, is_cte and node_type are those
\* of its first insertion.
C6_FirstWriterWins ==
    [][\A i \in DOMAIN graph.tables :
          /\ HasKey(graph'.tables, graph.tables[i].id)
          /\ NodeAt(graph'.tables, graph.tables[i].id) = graph.tables[i]]_vars

\* C6's case: "A" has just been offered as a view from another file, by
\* add_table or by merge, while the graph holds "a" registered as a table.
C6_Witness ==
    /\ \/ last.op = "add_table" /\ last.arg = 2
       \/ last.op = "merge" /\ last.arg = 3
    /\ \E i \in DOMAIN graph.tables :
         /\ graph.tables[i].id = <<"a">>
         /\ graph.tables[i].node_type = "table"
         /\ graph.tables[i].source_file # <<"f", "3">>

\* C7: merging a graph into itself, and merging the graph of a source a second
\* time, leave the table nodes, the column nodes and the edge list unchanged.
C7_MergeIdempotent ==
    [][/\ last'.op = "merge_self" => graph' = graph
       /\ (last'.op = "merge" /\ last'.again) => graph' = graph]_vars

\* C7's case: the graph of a source with column lineage has just been merged a
\* second time.
C7_Witness ==
    /\ last.op = "merge" /\ last.again
    /\ graph.columns # <<>>
    /\ Len(graph.edges) >= 2

(***************************************************************************)
(* The resolver: C8, C9, C10 (under SpecResolve).                          *)
(***************************************************************************)
\* The sources of a batch that neither fail to parse nor raise in extraction.
Fails(i) ==
    \/ ~Sources[i].parse_ok
    \/ \E k \in DOMAIN Sources[i].statements : Sources[i].statements[k].raises

RECURSIVE NonFailing(_)
NonFailing(b) ==
    IF b = <<>> THEN <<>>
    ELSE (IF Fails(Head(b)) THEN <<>> ELSE <<Head(b)>>) \o NonFailing(Tail(b))

\* The graphs of the sources of b, merged one after the other into g.
RECURSIVE MergeInOrder(_, _, _)
MergeInOrder(g, b, with_columns) ==
    IF b = <<>> THEN g
    ELSE MergeInOrder(merge(g, SourceGraph(Head(b), with_columns)), Tail(b), with_columns)

\* The graphs of the sources of b, merged from the last one backwards: each
\* graph receives the merge of those after it.
RECURSIVE MergeGrouped(_, _)
MergeGrouped(b, with_columns) ==
    IF b = <<>> THEN EmptyGraph
    ELSE merge(SourceGraph(Head(b), with_columns), MergeGrouped(Tail(b), with_columns))

Presence(g) ==
    [tables |-> Keys(g.tables), columns |-> Keys(g.columns),
     edges |-> {EdgeKey(g.edges[i]) : i \in DOMAIN g.edges}]

Reorderings(b) ==
    {[i \in DOMAIN b |-> b[p[i]]] : p \in IterationOrders(DOMAIN b)}

\* C8: the table ids, the column ids and the edge keys of the unified graph are
\* the same for every order and every grouping in which the per-source graphs
\* are merged.
C8_MergeOrderIndependentPresence ==
    pc = "returned"
        => \A b \in Reorderings(NonFailing(batch)) :
             /\ Presence(MergeInOrder(EmptyGraph, b, include_columns)) = Presence(graph)
             /\ Presence(MergeGrouped(b, include_columns)) = Presence(graph)

\* C8's case: three different sources with shared tables have been resolved.
C8_Witness ==
    /\ pc = "returned"
    /\ Len(NonFailing(batch)) = 3
    /\ batch[1] # batch[2] /\ batch[2] # batch[3] /\ batch[1] # batch[3]
    /\ Len(graph.edges) >= 3

\* C9: with include_columns false, neither the graph extract_lineage builds
\* nor the unified graph holds a column_to_column edge or a column node.
C9_ColumnGating ==
    ~include_columns
        => /\ graph.columns = <<>> /\ file_graph.columns = <<>>
           /\ \A i \in DOMAIN graph.edges : graph.edges[i].edge_type # COLUMN_TO_COLUMN
           /\ \A i \in DOMAIN file_graph.edges :
                file_graph.edges[i].edge_type # COLUMN_TO_COLUMN

\* C9's case: sources whose statements project columns have been resolved
\* without columns.
C9_Witness ==
    /\ pc = "returned" /\ ~include_columns
    /\ \E i, j \in DOMAIN batch : batch[i] = 1 /\ batch[j] = 6
    /\ Len(graph.edges) >= 2

\* C10: the resolver never raises, visits every source, and returns the graph
\* that resolving the non-failing sources alone, in the same order, returns.
C10_FailureIsolation ==
    /\ pc # "raised"
    /\ pc = "returned"
         => /\ idx = Len(batch) + 1
            /\ graph = MergeInOrder(EmptyGraph, NonFailing(batch), include_columns)

\* C10's case: a batch with a source that fails to parse and one that raises
\* after a statement was processed, and a good source after them, has been resolved.
C10_Witness ==
    /\ pc = "returned"
    /\ Len(batch) = 3
    /\ {batch[1], batch[2]} = {4, 5}
    /\ ~Fails(batch[3])
    /\ graph.edges # <<>>

(***************************************************************************)
(* What the resolver hands back: C11 (under SpecResolve).                  *)
(***************************************************************************)
\* The file names of the failing sources of a batch, in batch order.
RECURSIVE FailingNames(_)
FailingNames(b) ==
    IF b = <<>> THEN <<>>
    ELSE (IF Fails(Head(b)) THEN <<Sources[Head(b)].file_name>> ELSE <<>>)
         \o FailingNames(Tail(b))

\* C11 as claimed: the resolver returns two values, the unified graph and a
\* list of diagnostics with exactly one entry per failed source, naming it, and
\* none for a source that succeeded.
C11_DiagnosticsReturned ==
    pc = "returned"
        => /\ Len(returned) = 2
           /\ returned[1] = graph
           /\ returned[2] = FailingNames(batch)

\* C11 amended: the resolver returns the unified graph alone; the diagnostics
\* are the warnings it prints, exactly one per failed source, naming that source,
\* in batch order, and none for a source that succeeded.
C11_WarningsPrintedGraphReturned ==
    pc = "returned"
        => /\ returned = <<graph>>
           /\ warnings = FailingNames(batch)

\* C11's case: a batch in which the same source fails twice, with a source that
\* succeeds between the two failures, has been resolved.
C11_Witness ==
    /\ pc = "returned"
    /\ Len(batch) = 3
    /\ Fails(batch[1]) /\ ~Fails(batch[2]) /\ batch[3] = batch[1]
    /\ Len(warnings) = 2

(***************************************************************************)
(* One statement: C12, C13 (under SpecExtract).                            *)
(***************************************************************************)
\* The loop of extract_lineage is about to process a statement that does not raise.
AtStatement == pc = "extract" /\ stmt_idx <= Len(batch) /\ ~CurrentStatement.raises

\* The ids under which the tables of a list are registered.
RECURSIVE TableIds(_)
TableIds(tbls) ==
    IF tbls = <<>> THEN {}
    ELSE {Lower(TableQualifiedName(Head(tbls)))} \cup TableIds(Tail(tbls))

\* old is a prefix of new.
IsPrefix(old, new) == Len(old) <= Len(new) /\ SubSeq(new, 1, Len(old)) = old

EdgeCount(edges, k) == Cardinality({i \in DOMAIN edges : EdgeKey(edges[i]) = k})

IsViewCreation(statement) ==
    /\ statement.kind = "Create"
    /\ statement.create_kind # <<>>
    /\ Upper(statement.create_kind) = KindView

\* The statements of the sources of b, one after the other.
RECURSIVE StatementsOf(_)
StatementsOf(b) ==
    IF b = <<>> THEN <<>> ELSE Sources[Head(b)].statements \o StatementsOf(Tail(b))

\* The registrations a statement asks for, in order, each <<table id, node type>>:
\* the target first, then the sources.
Registrations(statement) ==
    LET target == get_target_table(statement)
        sources == get_source_tables(statement)
        ctes == get_cte_names(statement)
    IN (IF target = NoTable THEN <<>>
        ELSE << <<Lower(TableQualifiedName(target)),
                  IF IsViewCreation(statement) THEN "view" ELSE "table">> >>)
       \o [i \in DOMAIN sources |->
             <<Lower(TableQualifiedName(sources[i])),
               IF (target # NoTable \/ statement.kind = "Select")
                  /\ Lower(sources[i].name) \in ctes
               THEN "cte" ELSE "table">>]

RECURSIVE AllRegistrations(_)
AllRegistrations(statements) ==
    IF statements = <<>> THEN <<>>
    ELSE Registrations(Head(statements)) \o AllRegistrations(Tail(statements))

\* The node type of the first registration of id in regs.
FirstType(regs, id) ==
    regs[CHOOSE i \in DOMAIN regs :
           regs[i][1] = id /\ \A j \in DOMAIN regs : regs[j][1] = id => i <= j][2]

\* C14 as claimed: in the graph of a statement sequence, within one source or
\* across resolved sources, the target of every view creation has node_type
\* "view" and the target of every other statement has node_type "table".
C14_ViewTargetIsView ==
    pc = "returned"
        => LET statements == StatementsOf(NonFailing(batch)) IN
           \A k \in DOMAIN statements :
              get_target_table(statements[k]) # NoTable
                 => NodeAt(graph.tables,
                           Lower(TableQualifiedName(get_target_table(statements[k])))).node_type
                      = IF IsViewCreation(statements[k]) THEN "view" ELSE "table"

\* C14 amended: the node_type of a node is the one of its first registration in
\* processing order; the target v of a view creation has node_type "view" when
\* that statement is the first to register v, the target of another statement
\* has node_type "table" when that statement is the first to register it, and a
\* node registered earlier, as a source or as another statement's target, keeps
\* the type it got then.
C14_NodeTypeOfFirstRegistration ==
    pc = "returned"
        => LET regs == AllRegistrations(StatementsOf(NonFailing(batch))) IN
           /\ Keys(graph.tables) = {regs[i][1] : i \in DOMAIN regs}
           /\ \A i \in DOMAIN graph.tables :
                graph.tables[i].node_type = FirstType(regs, graph.tables[i].id)

\* C14's case: a source that creates the view A has been resolved before a
\* source that reads a as a table, and the node is a view.
C14_Witness ==
    /\ pc = "returned"
    /\ \E i, j \in DOMAIN batch : i < j /\ batch[i] = 3 /\ batch[j] = 1
    /\ HasKey(graph.tables, <<"a">>)
    /\ NodeAt(graph.tables, <<"a">>).node_type = "view"

(***************************************************************************)
(* Serialization: C15 (under SpecExtract).                                 *)
(***************************************************************************)
\* C15: in the serialized graph every node id and every link source and target
\* is lowercased, and the source and the target of every table_to_table link
\* are ids of nodes of the node list.
C15_SerializedIdsLowercased ==
    pc = "serialized"
        => LET d3 == returned[1]
               ids == {d3.nodes[i].id : i \in DOMAIN d3.nodes}
           IN /\ \A id \in ids : id = Lower(id)
              /\ \A i \in DOMAIN d3.links :
                   /\ d3.links[i].source = Lower(d3.links[i].source)
                   /\ d3.links[i].target = Lower(d3.links[i].target)
                   /\ d3.links[i].type = TABLE_TO_TABLE
                        => d3.links[i].source \in ids /\ d3.links[i].target \in ids

(***************************************************************************)
(* Column attribution: C16 (under SpecExtract).                            *)
(***************************************************************************)
\* The alias table _extract_column_lineage builds for a statement.
AliasMapOf(statement) ==
    AliasOfSources(get_source_tables(statement))
      \o AliasOfExprs(statement.select.froms) \o AliasOfExprs(statement.select.joins)

\* The projected column references of a statement that name no table, or a
\* table the alias table does not hold, each <<column, output column>>.
UnresolvedRefs(statement) ==
    {<<e.cols[c].name, IF e.is_alias THEN e.alias ELSE e.inner_name>> :
        <<e, c>> \in {ec \in UNION {{<<statement.select.expressions[k], c>> :
                                      c \in DOMAIN statement.select.expressions[k].cols} :
                                   k \in DOMAIN statement.select.expressions} :
                       LET col_ref == ec[1].cols[ec[2]] IN
                       /\ ec[1].is_alias \/ ec[1].inner_is_column
                       /\ col_ref.name # Star
                       /\ \/ col_ref.table = <<>>
                          \/ AliasGet(AliasMapOf(statement), Lower(col_ref.table)) = NoTable}}

\* C16: when a statement with a target and two or more distinct source tables
\* is processed with columns, a projected column reference without qualifier, or
\* with a qualifier the alias table does not hold, adds no column_to_column edge:
\* no edge from the bare column name to the output column.
C16_UnresolvedColumnNoEdge ==
    [][(/\ AtStatement /\ include_columns
        /\ get_target_table(CurrentStatement) # NoTable
        /\ CurrentStatement.select.found
        /\ Len(get_source_tables(CurrentStatement)) >= 2)
          => \A r \in UnresolvedRefs(CurrentStatement) :
               \A i \in DOMAIN file_graph'.edges :
                  (i > Len(file_graph.edges)
                     /\ file_graph'.edges[i].edge_type = COLUMN_TO_COLUMN)
                    => ~(/\ file_graph'.edges[i].source = r[1]
                         /\ file_graph'.edges[i].target
                              = TableQualifiedName(get_target_table(CurrentStatement))
                                  \o <<Dot>> \o r[2])]_vars

(***************************************************************************)
(* Target and sources: C17 (under SpecExtract).                            *)
(***************************************************************************)
\* The target of the statement is referenced a second time, by another
\* exp.Table of the tree than the one _get_target_table returned.
ReferencedElsewhere(statement) ==
    \E j \in DOMAIN statement.tables :
        /\ j # statement.this.ref
        /\ Lower(TableQualifiedName(parse_table_ref(statement.tables[j])))
             = Lower(TableQualifiedName(get_target_table(statement)))

\* C17: the reference _get_target_table returns as the write target of an
\* Insert, Create or Merge, a Create target unwrapped from an exp.Schema
\* included, is not collected as a source, and processing the statement adds no
\* self-edge T -> T, unless T is referenced elsewhere in the statement.
C17_TargetNotASource ==
    [][(/\ AtStatement
        /\ get_target_table(CurrentStatement) # NoTable
        /\ ~ReferencedElsewhere(CurrentStatement))
          => LET T == Lower(TableQualifiedName(get_target_table(CurrentStatement))) IN
             /\ T \notin TableIds(get_source_tables(CurrentStatement))
             /\ EdgeCount(file_graph'.edges, <<T, T, TABLE_TO_TABLE>>)
                  = EdgeCount(file_graph.edges, <<T, T, TABLE_TO_TABLE>>)]_vars

(***************************************************************************)
(* The CTE flag: C18 (under SpecExtract).                                  *)
(***************************************************************************)
\* C18: in every branch of _process_statement, a source the statement is the
\* first to register is registered with is_cte true and node_type "cte" when its
\* name matches, case-insensitively, a WITH binding of the statement, and with
\* is_cte false and node_type "table" when it matches none.
C18_CteFlagInEveryBranch ==
    [][AtStatement
          => LET sources == get_source_tables(CurrentStatement)
                 target == get_target_table(CurrentStatement)
             IN \A i \in DOMAIN sources :
                  LET id == Lower(TableQualifiedName(sources[i]))
                      bound == Lower(sources[i].name) \in get_cte_names(CurrentStatement)
                  IN (/\ ~HasKey(file_graph.tables, id)
                      /\ target # NoTable => id # Lower(TableQualifiedName(target)))
                       => /\ HasKey(file_graph'.tables, id)
                          /\ NodeAt(file_graph'.tables, id).is_cte = bound
                          /\ NodeAt(file_graph'.tables, id).node_type
                               = IF bound THEN "cte" ELSE "table"]_vars

(***************************************************************************)
(* Upstream and downstream: C19 (under SpecOrder).                         *)
(***************************************************************************)
\* The sources, the targets of a list of edges.
SourcesOf(edges) == [i \in DOMAIN edges |-> edges[i].source]
TargetsOf(edges) == [i \in DOMAIN edges |-> edges[i].target]

\* The string x occurs in the list up to letter case.
OccursIn(x, list) == \E i \in DOMAIN list : Lower(list[i]) = Lower(x)

\* C19: for an id in any letter case, get_upstream returns the sources of the
\* edges whose target equals it case-insensitively and get_downstream the targets
\* of the edges whose source equals it case-insensitively, in edge insertion
\* order; so x is in get_upstream(y) iff y is in get_downstream(x), up to case.
C19_UpstreamDownstream ==
    /\ pc = "upstream"
         => returned[2]
              = SourcesOf(SelectSeq(graph.edges,
                                    LAMBDA e : Lower(e.target) = Lower(returned[1])))
    /\ pc = "downstream"
         => returned[2]
              = TargetsOf(SelectSeq(graph.edges,
                                    LAMBDA e : Lower(e.source) = Lower(returned[1])))
    /\ pc = "upstream"
         => \A x \in QueryIds :
              OccursIn(x, returned[2]) <=> OccursIn(returned[1], get_downstream(graph, x))
    /\ pc = "downstream"
         => \A y \in QueryIds :
              OccursIn(y, returned[2]) <=> OccursIn(returned[1], get_upstream(graph, y))

\* C19's case: get_upstream("C") has been asked of a graph whose edges into c
\* come from a and from B, written in upper case.
C19_Witness ==
    /\ pc = "upstream"
    /\ returned[1] = <<"C">>
    /\ Len(returned[2]) >= 2
    /\ \E i \in DOMAIN returned[2] : returned[2][i] = <<"B">>

(***************************************************************************)
(* Determinism of the execution order: C20 (under SpecOrder).              *)
(***************************************************************************)
\* C20: get_execution_order is deterministic: the sequence an invocation returns
\* is the one every invocation on a graph with the same tables and the same
\* edges returns, also when a node has several successors that become ready
\* while it is processed.
C20_ExecutionOrderDeterministic ==
    pc = "ordered" => \A r \in get_execution_order(graph) : r = order

(***************************************************************************)
(* Cross-source linking: C21 (under SpecResolve).                          *)
(***************************************************************************)
\* The statements of the non-failing source at position i of the batch that
\* have a target.
TargetStatements(i) ==
    IF Fails(batch[i]) THEN {}
    ELSE {Sources[batch[i]].statements[k] :
            k \in {n \in DOMAIN Sources[batch[i]].statements :
                     get_target_table(Sources[batch[i]].statements[n]) # NoTable}}

TargetId(statement) == Lower(TableQualifiedName(get_target_table(statement)))

\* The table_to_table edge keys of g.
TableEdgeKeys(g) ==
    {EdgeKey(g.edges[i]) : i \in {j \in DOMAIN g.edges : g.edges[j].edge_type = TABLE_TO_TABLE}}

\* C21: when one source of the batch creates table T and another reads T, in
\* any letter case and in either order, the unified graph holds exactly one node
\* for T, T is the target of a table_to_table edge from each of the producer's
\* sources and the source of the table_to_table edge into the consumer's target.
C21_CrossSourceLinking ==
    pc = "returned"
        => \A i, j \in DOMAIN batch :
             i # j
               => \A p \in TargetStatements(i), q \in TargetStatements(j) :
                    TargetId(p) \in TableIds(get_source_tables(q))
                      => /\ Cardinality({n \in DOMAIN graph.tables :
                                           Lower(NodeQualifiedName(graph.tables[n]))
                                             = TargetId(p)}) = 1
                         /\ HasKey(graph.tables, TargetId(p))
                         /\ \A src \in TableIds(get_source_tables(p)) :
                              <<src, TargetId(p), TABLE_TO_TABLE>> \in TableEdgeKeys(graph)
                         /\ <<TargetId(p), TargetId(q), TABLE_TO_TABLE>> \in TableEdgeKeys(graph)
                         /\ EdgeCount(graph.edges, <<TargetId(p), TargetId(q), TABLE_TO_TABLE>>)
                              = 1

\* C21's case: the source that reads B into c has been resolved before the
\* source that creates b, and the graph links them.
C21_Witness ==
    /\ pc = "returned"
    /\ \E i, j \in DOMAIN batch : i < j /\ batch[i] = 2 /\ batch[j] = 1
    /\ HasKey(graph.tables, <<"b">>)
    /\ NodeAt(graph.tables, <<"b">>).name = <<"B">>
    /\ Len(graph.edges) >= 2

(***************************************************************************)
(* Head and tail of the execution order: C22 (under SpecOrder).            *)
(***************************************************************************)
\* The ids of the tables of g that are in S, in registration order.
RegisteredIn(g, S) ==
    SelectSeq([i \in DOMAIN g.tables |-> g.tables[i].id], LAMBDA id : id \in S)

\* The tables with no incoming table_to_table edge from a registered table.
NoIncoming(g) == {t \in Keys(g.tables) : \A p \in TableEdges(g) : p[2] # t}

\* The tables the traversal cannot place: those on a cycle of the
\* table_to_table edges and those a table on a cycle reaches.
Unplaced(g) ==
    LET reach == Closure(TableEdges(g))
        cyclic == {t \in Keys(g.tables) : <<t, t>> \in reach}
    IN cyclic \cup {t \in Keys(g.tables) : \E c \in cyclic : <<c, t>> \in reach}

\* The tables with no incoming table_to_table edge at all.
NoIncomingEdge(g) ==
    {t \in Keys(g.tables) :
       \A i \in DOMAIN g.edges :
          g.edges[i].edge_type = TABLE_TO_TABLE => Lower(g.edges[i].target) # t}

\* C22 as claimed: the sequence get_execution_order returns starts with the
\* tables that have no incoming table_to_table edge, in registration order, and
\* ends with the tables the traversal did not place, in registration order.
C22_HeadAndTailAsClaimed ==
    pc = "ordered"
        => LET head == RegisteredIn(graph, NoIncomingEdge(graph))
               tail == RegisteredIn(graph, Unplaced(graph))
               n == Len(order.order)
           IN /\ IsPrefix(head, order.order)
              /\ Len(tail) <= n
              /\ SubSeq(order.order, n - Len(tail) + 1, n) = tail

\* C22 amended: the sequence starts with the tables that have no incoming
\* table_to_table edge from a registered table (an edge whose source is no
\* registered table is not counted), in registration order, and ends with the
\* tables the traversal did not place, in registration order.
C22_HeadAndTailInRegistrationOrder ==
    pc = "ordered"
        => LET head == RegisteredIn(graph, NoIncoming(graph))
               tail == RegisteredIn(graph, Unplaced(graph))
               n == Len(order.order)
           IN /\ IsPrefix(head, order.order)
              /\ Len(tail) <= n
              /\ SubSeq(order.order, n - Len(tail) + 1, n) = tail

\* C22's case: a graph with two unplaced tables, registered in another order
\* than a sorted one, and a table without incoming edge has been ordered.
C22_Witness ==
    /\ pc = "ordered"
    /\ Cardinality(Unplaced(graph)) >= 2
    /\ NoIncoming(graph) # {}
    /\ Len(graph.tables) = 3
    /\ graph.tables[1].id = <<"c">>

(***************************************************************************)
(* Append-only: C23 (under Spec).                                          *)
(***************************************************************************)
\* C23: every add_table, add_column, add_edge and merge leaves each table node
\* and each column node in the graph, and the edge list before the operation is
\* a prefix of the edge list after it: no edge is removed, moved or rewritten.
C23_AppendOnly ==
    [][/\ Keys(graph.tables) \subseteq Keys(graph'.tables)
       /\ Keys(graph.columns) \subseteq Keys(graph'.columns)
       /\ IsPrefix(graph.tables, graph'.tables)
       /\ IsPrefix(graph.columns, graph'.columns)
       /\ IsPrefix(graph.edges, graph'.edges)]_vars

\* C23's case: the graph of a source whose edge the graph already held under
\* another spelling and attribution has just been merged into a graph that had
\* tables, columns and edges, and brought new ones.
C23_Witness ==
    /\ last.op = "merge" /\ last.arg = 2
    /\ \E i \in DOMAIN graph.edges :
         /\ EdgeKey(graph.edges[i]) = <<<<"b">>, <<"c">>, TABLE_TO_TABLE>>
         /\ graph.edges[i].source = <<"b">>
    /\ Len(graph.edges) >= 3
    /\ graph.columns # <<>>

(***************************************************************************)
(* Per-source extraction and merge against one extraction: C24 (under      *)
(* SpecResolve).                                                           *)
(***************************************************************************)
\* What C24 compares of a graph: the table ids in registration order, each with
\* its node type, the column ids, and the dedup keys of the edges in list order.
Outline(g) ==
    [tables |-> [i \in DOMAIN g.tables |-> <<g.tables[i].id, g.tables[i].node_type>>],
     columns |-> Keys(g.columns),
     edges |-> [i \in DOMAIN g.edges |-> EdgeKey(g.edges[i])]]

\* One extract_lineage call over the statements, its loop taken a statement at
\* a time: ExtractLoop processes each statement on the graph that the statements
\* before it have built, and that graph is evaluated before the next is taken.
RECURSIVE OneExtraction(_, _, _)
OneExtraction(g, statements, with_columns) ==
    IF statements = <<>> THEN [raised |-> FALSE, graph |-> g]
    ELSE LET step == ExtractLoop(g, <<Head(statements)>>, ExtractFile, with_columns)
         IN IF step.raised THEN step
            ELSE OneExtraction(step.graph, Tail(statements), with_columns)

\* C24: when no source of the batch fails, the unified graph the resolver
\* returns has the table ids, in registration order and with the node types,
\* the column ids and the sequence of edge dedup keys of the graph that one
\* extract_lineage call builds from the statements of the sources concatenated
\* in batch order.
C24_MergeEqualsOneExtraction ==
    (pc = "returned" /\ NonFailing(batch) = batch)
        => LET one == OneExtraction(EmptyGraph, StatementsOf(batch), include_columns)
           IN ~one.raised /\ Outline(graph) = Outline(one.graph)

\* C24's case: three sources, none failing, the first resolved again as the
\* third, with column lineage: the merge met nodes and edges it already held.
C24_Witness ==
    /\ pc = "returned"
    /\ Len(batch) = 3 /\ NonFailing(batch) = batch
    /\ batch[1] = batch[3] /\ batch[1] # batch[2]
    /\ include_columns
    /\ graph.columns # <<>>
    /\ Len(graph.edges) >= 4

(***************************************************************************)
(* The owner of a column node: C25 (under SpecExtract).                    *)
(***************************************************************************)
\* C25: in the graph extract_lineage builds with columns enabled, the table_id
\* of every column node is the id of a table node of the same graph, also when
\* the owning table is written with a schema or a database.
C25_ColumnTableRegistered ==
    include_columns
        => \A i \in DOMAIN file_graph.columns :
             HasKey(file_graph.tables, file_graph.columns[i].table_id)

====
